---- MODULE Spec2Model ----
(***************************************************************************)
(* Model of the Enhanced Diet Manager CLI (src/src/main.rs): the in-memory *)
(* collections (users, products, meals, daily_logs), the four text files   *)
(* they are saved to and loaded from, and the menu operations that change  *)
(* them.                                                                   *)
(*                                                                         *)
(* Text is modelled character by character: a string is a sequence of      *)
(* one-character strings, a file is the sequence of its lines.  Numbers    *)
(* are integers (f32 values without a fractional part, which Rust's        *)
(* Display prints without a decimal point and parse() reads back).         *)
(***************************************************************************)
EXTENDS Integers, Sequences, FiniteSets, TLC

(***************************************************************************)
(* Bounds of the model.                                                    *)
(***************************************************************************)
MaxDate == 2        \* the clock runs over the days 1..MaxDate of January 2024
MaxMeals == 2       \* length of the composer's meal list
MaxLogged == 3      \* meals held by the log store when one more is logged
MaxItems == 2       \* items of a meal of a log given to the aggregation
MaxLogMeals == 2    \* meals of a log given to the aggregation
MaxLines == 2       \* lines of a hand-written file given to a decoder

(***************************************************************************)
(* Text helpers.                                                           *)
(***************************************************************************)
Digits == <<"0", "1", "2", "3", "4", "5", "6", "7", "8", "9">>

IsDigit(c) == \E i \in 1..10 : Digits[i] = c

DigitVal(c) == (CHOOSE i \in 1..10 : Digits[i] = c) - 1

\* The decimal digits of a natural number (Display for an unsigned value).
RECURSIVE FmtNat(_)
FmtNat(n) == IF n < 10 THEN <<Digits[n + 1]>>
             ELSE FmtNat(n \div 10) \o <<Digits[(n % 10) + 1]>>

\* Display of an f32 holding an integer value: "-" and the digits.
FmtF32(x) == IF x < 0 THEN <<"-">> \o FmtNat(0 - x) ELSE FmtNat(x)

\* Display of a u32.
FmtU32(n) == FmtNat(n)

RECURSIVE NatOfDigits(_, _)
NatOfDigits(s, acc) == IF s = <<>> THEN acc
                       ELSE NatOfDigits(Tail(s), acc * 10 + DigitVal(Head(s)))

AllDigits(s) == Len(s) > 0 /\ \A i \in 1..Len(s) : IsDigit(s[i])

\* str::parse::<f32>() on the strings of the model: an optional sign and
\* decimal digits.  ok = FALSE is the Err the callers replace by a default.
ParseF32(s) ==
    IF s # <<>> /\ Head(s) = "-" /\ AllDigits(Tail(s))
        THEN [ok |-> TRUE, val |-> 0 - NatOfDigits(Tail(s), 0)]
    ELSE IF s # <<>> /\ Head(s) = "+" /\ AllDigits(Tail(s))
        THEN [ok |-> TRUE, val |-> NatOfDigits(Tail(s), 0)]
    ELSE IF AllDigits(s)
        THEN [ok |-> TRUE, val |-> NatOfDigits(s, 0)]
    ELSE [ok |-> FALSE, val |-> 0]

\* str::parse::<u32>(): an optional "+" and decimal digits, no "-".
ParseU32(s) ==
    IF s # <<>> /\ Head(s) = "+" /\ AllDigits(Tail(s))
        THEN [ok |-> TRUE, val |-> NatOfDigits(Tail(s), 0)]
    ELSE IF AllDigits(s)
        THEN [ok |-> TRUE, val |-> NatOfDigits(s, 0)]
    ELSE [ok |-> FALSE, val |-> 0]

\* unwrap_or that falls back to 0 whatever default it is given.
UnwrapOrZero(r, default) == IF r.ok THEN r.val ELSE 0

\* Result::unwrap_or
UnwrapOr(r, default) == IF r.ok THEN r.val ELSE default

\* str::split(','): the fields of a line; the empty line has one empty field.
RECURSIVE SplitFrom(_, _, _)
SplitFrom(s, cur, acc) ==
    IF s = <<>> THEN Append(acc, cur)
    ELSE IF Head(s) = "," THEN SplitFrom(Tail(s), <<>>, Append(acc, cur))
    ELSE SplitFrom(Tail(s), Append(cur, Head(s)), acc)

Split(s) == SplitFrom(s, <<>>, <<>>)

\* format!("{},{},...") of the fields.
RECURSIVE JoinComma(_)
JoinComma(fs) == IF Len(fs) = 0 THEN <<>>
                 ELSE IF Len(fs) = 1 THEN fs[1]
                 ELSE fs[1] \o <<",">> \o JoinComma(Tail(fs))

\* NaiveDate values are the days 1..31 of January 2024; format("%Y-%m-%d").
DatePrefix == <<"2", "0", "2", "4", "-", "0", "1", "-">>

FmtDate(d) == DatePrefix \o <<Digits[(d \div 10) + 1], Digits[(d % 10) + 1]>>

\* NaiveDate::parse_from_str(s, "%Y-%m-%d"); ok = FALSE is the Err that
\* load_daily_logs unwraps.
ParseDate(s) ==
    IF /\ Len(s) = 10
       /\ SubSeq(s, 1, 8) = DatePrefix
       /\ IsDigit(s[9]) /\ IsDigit(s[10])
       /\ DigitVal(s[9]) * 10 + DigitVal(s[10]) \in 1..31
    THEN [ok |-> TRUE, val |-> DigitVal(s[9]) * 10 + DigitVal(s[10])]
    ELSE [ok |-> FALSE, val |-> 0]

\* The orders in which a HashMap may be iterated: every arrangement of its keys.
Orders(S) == {o \in [1..Cardinality(S) -> S] : \A k \in S : \E i \in DOMAIN o : o[i] = k}

RECURSIVE Concat(_)
Concat(ss) == IF ss = <<>> THEN <<>> ELSE Head(ss) \o Concat(Tail(ss))

(***************************************************************************)
(* HashMap helpers.  A map is a function whose domain is its key set.      *)
(***************************************************************************)
EmptyMap == [k \in {} |-> 0]

\* HashMap::insert: adds the key or overwrites its value.
Insert(m, key, v) == [k \in (DOMAIN m) \cup {key} |-> IF k = key THEN v ELSE m[k]]

(***************************************************************************)
(* Flat-record codec: users.txt                                            *)
(***************************************************************************)
UserLine(u) == JoinComma(<<u.name, FmtU32(u.age), u.sex, FmtF32(u.height), FmtF32(u.weight)>>)

\* save_users, iterating the map in the order `order`.
save_users(us, order) == [i \in 1..Len(order) |-> UserLine(us[order[i]])]

load_users_line(us, line) ==
    LET parts == Split(line) IN
    IF Len(parts) = 5
    THEN Insert(us, parts[1],
                [name   |-> parts[1],
                 age    |-> UnwrapOr(ParseU32(parts[2]), 0),
                 sex    |-> parts[3],
                 height |-> UnwrapOr(ParseF32(parts[4]), 0),
                 weight |-> UnwrapOr(ParseF32(parts[5]), 0)])
    ELSE us

RECURSIVE load_users_from(_, _)
load_users_from(lines, us) ==
    IF lines = <<>> THEN us
    ELSE load_users_from(Tail(lines), load_users_line(us, Head(lines)))

load_users(lines) == load_users_from(lines, EmptyMap)

(***************************************************************************)
(* Flat-record codec: products.txt                                         *)
(***************************************************************************)
ProductLine(key, p) ==
    JoinComma(<<key, p.unit, FmtF32(p.calories), FmtF32(p.proteins), FmtF32(p.minerals)>>)

save_products(ps, order) == [i \in 1..Len(order) |-> ProductLine(order[i], ps[order[i]])]

load_products_line(ps, line) ==
    LET parts == Split(line) IN
    IF Len(parts) = 5
    THEN Insert(ps, parts[1],
                [unit     |-> parts[2],
                 calories |-> UnwrapOr(ParseF32(parts[3]), 0),
                 proteins |-> UnwrapOr(ParseF32(parts[4]), 0),
                 minerals |-> UnwrapOr(ParseF32(parts[5]), 0)])
    ELSE ps

RECURSIVE load_products_from(_, _)
load_products_from(lines, ps) ==
    IF lines = <<>> THEN ps
    ELSE load_products_from(Tail(lines), load_products_line(ps, Head(lines)))

load_products(lines) == load_products_from(lines, EmptyMap)

(***************************************************************************)
(* Flat-record codec: meals.txt                                            *)
(***************************************************************************)
ItemLine(item) == JoinComma(<<item[1], FmtF32(item[2])>>)

\* The lines save_meals writes for one meal: name, items, blank line.
MealLines(meal) ==
    <<meal.name>> \o [i \in 1..Len(meal.items) |-> ItemLine(meal.items[i])] \o <<<<>>>>

save_meals(ms) == Concat([i \in 1..Len(ms) |-> MealLines(ms[i])])

\* The inner loop of load_meals: reads item lines up to and including the
\* first empty line (or the end of the file).
RECURSIVE load_meal_items(_, _)
load_meal_items(lines, items) ==
    IF lines = <<>> THEN [items |-> items, rest |-> <<>>]
    ELSE IF Head(lines) = <<>> THEN [items |-> items, rest |-> Tail(lines)]
    ELSE LET parts == Split(Head(lines)) IN
         IF Len(parts) = 2
         THEN load_meal_items(Tail(lines),
                              Append(items, <<parts[1], UnwrapOr(ParseF32(parts[2]), 0)>>))
         ELSE load_meal_items(Tail(lines), items)

RECURSIVE load_meals_from(_, _)
load_meals_from(lines, ms) ==
    IF lines = <<>> THEN ms
    ELSE LET r == load_meal_items(Tail(lines), <<>>) IN
         load_meals_from(r.rest,
                         Append(ms, [name |-> Head(lines), items |-> r.items, servings |-> 1]))

load_meals(lines) == load_meals_from(lines, <<>>)

(***************************************************************************)
(* Flat-record codec: daily_logs.txt                                       *)
(***************************************************************************)
LoadedMeal == <<"L", "o", "a", "d", "e", "d", " ", "M", "e", "a", "l">>

LogLine(username, date, meal, item) ==
    JoinComma(<<username, FmtDate(date), FmtF32(meal.servings), item[1], FmtF32(item[2])>>)

\* The lines save_daily_logs writes for one entry: one per item of each meal.
LogEntryLines(key, log) ==
    Concat([i \in 1..Len(log.meals) |->
              [j \in 1..Len(log.meals[i].items) |->
                  LogLine(key[1], key[2], log.meals[i], log.meals[i].items[j])]])

save_daily_logs(logs, order) ==
    Concat([i \in 1..Len(order) |-> LogEntryLines(order[i], logs[order[i]])])

\* PushMeal with the meal put in front of the entry's meals instead of at the end.
PushMealFront(logs, key, meal) ==
    IF key \in DOMAIN logs
    THEN [logs EXCEPT ![key].meals = <<meal>> \o @]
    ELSE Insert(logs, key, [date |-> key[2], meals |-> <<meal>>])

\* entry(log_key).or_insert(DailyLog { date, meals: Vec::new() }).meals.push(meal)
PushMeal(logs, key, meal) ==
    IF key \in DOMAIN logs
    THEN [logs EXCEPT ![key].meals = Append(@, meal)]
    ELSE Insert(logs, key, [date |-> key[2], meals |-> <<meal>>])

\* The guard of load_daily_logs on the number of fields of a line.
LogLineAccepted(parts) == Len(parts) >= 3

\* One line of load_daily_logs.  panic: the unwrap of a date that does not
\* parse, or the index past the end of parts.
load_daily_logs_line(logs, line) ==
    LET parts == Split(line) IN
    IF LogLineAccepted(parts)
    THEN IF ~ParseDate(parts[2]).ok \/ Len(parts) < 5
         THEN [panic |-> TRUE, logs |-> logs]
         ELSE [panic |-> FALSE,
               logs  |-> PushMeal(logs, <<parts[1], ParseDate(parts[2]).val>>,
                                  [name     |-> LoadedMeal,
                                   items    |-> << <<parts[4], UnwrapOr(ParseF32(parts[5]), 0)>> >>,
                                   servings |-> UnwrapOr(ParseF32(parts[3]), 1)])]
    ELSE [panic |-> FALSE, logs |-> logs]

RECURSIVE load_daily_logs_from(_, _)
load_daily_logs_from(lines, logs) ==
    IF lines = <<>> THEN [panic |-> FALSE, logs |-> logs]
    ELSE LET r == load_daily_logs_line(logs, Head(lines)) IN
         IF r.panic THEN r ELSE load_daily_logs_from(Tail(lines), r.logs)

load_daily_logs(lines) == load_daily_logs_from(lines, EmptyMap)

(***************************************************************************)
(* Aggregation (impl DailyLog).                                            *)
(***************************************************************************)
RECURSIVE SumSeq(_)
SumSeq(s) == IF s = <<>> THEN 0 ELSE Head(s) + SumSeq(Tail(s))

\* The flat_map of the two methods: one (meal, item) pair per item of the log.
FlatItems(log) ==
    Concat([i \in 1..Len(log.meals) |->
              [j \in 1..Len(log.meals[i].items) |->
                  [item |-> log.meals[i].items[j], servings |-> log.meals[i].servings]]])

\* total_calories without the factor meal.servings.
total_calories_no_servings(log, ps) ==
    LET fi == FlatItems(log) IN
    SumSeq([i \in 1..Len(fi) |->
              IF fi[i].item[1] \in DOMAIN ps
              THEN ps[fi[i].item[1]].calories * fi[i].item[2]
              ELSE 0])

total_calories(log, ps) ==
    LET fi == FlatItems(log) IN
    SumSeq([i \in 1..Len(fi) |->
              IF fi[i].item[1] \in DOMAIN ps
              THEN ps[fi[i].item[1]].calories * fi[i].item[2] * fi[i].servings
              ELSE 0])

total_nutrients(log, ps) ==
    LET fi == FlatItems(log) IN
    <<SumSeq([i \in 1..Len(fi) |->
                IF fi[i].item[1] \in DOMAIN ps
                THEN ps[fi[i].item[1]].proteins * fi[i].item[2] * fi[i].servings
                ELSE 0]),
      SumSeq([i \in 1..Len(fi) |->
                IF fi[i].item[1] \in DOMAIN ps
                THEN ps[fi[i].item[1]].minerals * fi[i].item[2] * fi[i].servings
                ELSE 0])>>

(***************************************************************************)
(* Console input.  Every prompt is answered by a line of text; the sets    *)
(* below are the answers the model explores.                               *)
(***************************************************************************)
UserU == <<"u">>
UserV == <<"v">>
UserC == <<"u", ",", "v">>       \* a user name that contains the separator
ProdE == <<"e">>
ProdEG == <<"e", ",", "g">>      \* a product name that contains the separator
ProdZ == <<"z">>                 \* never added to the catalog

SignUpU == [name |-> UserU, age |-> <<"3", "0">>, sex |-> <<"M">>, height |-> <<"7">>, weight |-> <<"x">>]
SignUpU2 == [name |-> UserU, age |-> <<"-", "1">>, sex |-> <<"F">>, height |-> <<"1", "2">>, weight |-> <<"-", "4">>]
SignUpV == [name |-> UserV, age |-> <<"4">>, sex |-> <<"M">>, height |-> <<"8">>, weight |-> <<"9">>]
SignUpC == [name |-> UserC, age |-> <<"5">>, sex |-> <<"F">>, height |-> <<"6">>, weight |-> <<"7">>]

ProductE == [name |-> ProdE, unit |-> <<"g">>, calories |-> <<"2">>, proteins |-> <<"1">>, minerals |-> <<"3">>]
ProductE2 == [name |-> ProdE, unit |-> <<"g">>, calories |-> <<"x">>, proteins |-> <<"5">>, minerals |-> <<"-", "1">>]
ProductEG == [name |-> ProdEG, unit |-> <<"c", "u", "p">>, calories |-> <<"4">>, proteins |-> <<"2">>, minerals |-> <<"1">>]

\* What is typed into add_meal / create_custom_meal: the meal name, the
\* (product name, quantity) answers given before "done", and the servings.
MealTwo == [name |-> <<"m">>, tries |-> << <<ProdE, <<"2">> >>, <<ProdZ, <<"1">> >>, <<ProdEG, <<"3">> >> >>, servings |-> <<"2">>]
MealBad == [name |-> <<"b">>, tries |-> << <<ProdE, <<"x">> >> >>, servings |-> <<"x">>]
MealNone == [name |-> <<>>, tries |-> <<>>, servings |-> <<"-", "1">>]

SignUpInputs == {SignUpU, SignUpU2, SignUpV, SignUpC}
AddProductInputs == {ProductE, ProductE2, ProductEG}
MealInputs == {MealTwo, MealBad, MealNone}
LogInInputs == {UserU, UserV, UserC}
ChoiceInputs == {<<"0">>, <<"1">>, <<"2">>, <<"x">>}

(***************************************************************************)
(* State.                                                                  *)
(***************************************************************************)
VARIABLES
    users,          \* HashMap<String, User>
    products,       \* HashMap<String, Product>
    meals,          \* Vec<Meal>
    daily_logs,     \* HashMap<(String, NaiveDate), DailyLog>
    users_txt,      \* the lines of users.txt
    products_txt,   \* the lines of products.txt
    meals_txt,      \* the lines of meals.txt
    daily_logs_txt, \* the lines of daily_logs.txt
    pc,             \* "off", "main" (main menu), "user" (user menu), "panicked"
    username,       \* the user of the user menu
    today,          \* Local::now().date_naive()
    shown           \* what view_daily_logs printed, until the next operation:
                    \* no entries stands for "No daily logs found."

vars == <<users, products, meals, daily_logs, users_txt, products_txt, meals_txt,
          daily_logs_txt, pc, username, today, shown>>

NotShown == [printed |-> FALSE, entries |-> <<>>]

memory == <<users, products, meals, daily_logs>>
files == <<users_txt, products_txt, meals_txt, daily_logs_txt>>

\* A fresh installation: no file exists, the program is not running.
Init ==
    /\ users = EmptyMap /\ products = EmptyMap /\ meals = <<>> /\ daily_logs = EmptyMap
    /\ users_txt = <<>> /\ products_txt = <<>> /\ meals_txt = <<>> /\ daily_logs_txt = <<>>
    /\ pc = "off" /\ username = <<>> /\ today = 1
    /\ shown = NotShown

(***************************************************************************)
(* main: start-up and exit.                                                *)
(***************************************************************************)
\* main, lines 37-40: the four loads.  A panic in load_daily_logs ends the
\* process before the menu is shown.
Start ==
    /\ pc = "off"
    /\ LET r == load_daily_logs(daily_logs_txt) IN
       /\ users' = load_users(users_txt)
       /\ products' = load_products(products_txt)
       /\ meals' = load_meals(meals_txt)
       /\ daily_logs' = r.logs
       /\ pc' = IF r.panic THEN "panicked" ELSE "main"
    /\ shown' = NotShown
    /\ UNCHANGED <<files, username, today>>

\* main, choice "3": save everything and leave.  The collections keep the
\* values the process last held until the next start replaces them.
Exit ==
    /\ pc = "main"
    /\ \E ou \in Orders(DOMAIN users), op \in Orders(DOMAIN products),
          ol \in Orders(DOMAIN daily_logs) :
          /\ users_txt' = save_users(users, ou)
          /\ products_txt' = save_products(products, op)
          /\ daily_logs_txt' = save_daily_logs(daily_logs, ol)
    /\ meals_txt' = save_meals(meals)
    /\ pc' = "off"
    /\ shown' = NotShown
    /\ UNCHANGED <<memory, username, today>>

\* The wall clock moves on to the next day.
Tick ==
    /\ today < MaxDate
    /\ today' = today + 1
    /\ UNCHANGED <<memory, files, pc, username, shown>>

(***************************************************************************)
(* Main menu.                                                              *)
(***************************************************************************)
\* The User value sign_up builds from the answers.
new_user(in) ==
    [name   |-> in.name,
     age    |-> UnwrapOr(ParseU32(in.age), 0),
     sex    |-> in.sex,
     height |-> UnwrapOr(ParseF32(in.height), 0),
     weight |-> UnwrapOr(ParseF32(in.weight), 0)]

sign_up(in) ==
    /\ pc = "main"
    /\ users' = Insert(users, in.name, new_user(in))
    /\ \E o \in Orders(DOMAIN users') : users_txt' = save_users(users', o)
    /\ shown' = NotShown
    /\ UNCHANGED <<products, meals, daily_logs, products_txt, meals_txt, daily_logs_txt,
                   pc, username, today>>

SignUp == \E in \in SignUpInputs : sign_up(in)

\* log_in: a known name opens the user menu, an unknown one returns.
log_in(name) ==
    /\ pc = "main"
    /\ pc' = IF name \in DOMAIN users THEN "user" ELSE "main"
    /\ username' = IF name \in DOMAIN users THEN name ELSE username
    /\ shown' = NotShown
    /\ UNCHANGED <<memory, files, today>>

LogIn == \E name \in LogInInputs : log_in(name)

\* user_menu, choice "5": back to the main menu.
GoBack ==
    /\ pc = "user"
    /\ pc' = "main"
    /\ username' = <<>>
    /\ shown' = NotShown
    /\ UNCHANGED <<memory, files, today>>

(***************************************************************************)
(* User menu: products and meals.                                          *)
(***************************************************************************)
\* get_float_input: the parsed value, or 0 when the line does not parse.
get_float_input(line) == UnwrapOr(ParseF32(line), 0)

\* The Product value add_product builds from the answers.
new_product(in) ==
    [unit     |-> in.unit,
     calories |-> get_float_input(in.calories),
     proteins |-> get_float_input(in.proteins),
     minerals |-> get_float_input(in.minerals)]

add_product(in) ==
    /\ pc = "user"
    /\ products' = Insert(products, in.name, new_product(in))
    /\ \E o \in Orders(DOMAIN products') : products_txt' = save_products(products', o)
    /\ shown' = NotShown
    /\ UNCHANGED <<users, meals, daily_logs, users_txt, meals_txt, daily_logs_txt,
                   pc, username, today>>

AddProduct == \E in \in AddProductInputs : add_product(in)

\* read_items without the contains_key test: every name typed is pushed.
RECURSIVE read_items_unchecked(_, _, _)
read_items_unchecked(tries, ps, items) ==
    IF tries = <<>> THEN items
    ELSE read_items_unchecked(Tail(tries), ps,
                              Append(items, <<Head(tries)[1], get_float_input(Head(tries)[2])>>))

\* The item loop of add_meal and create_custom_meal: a name that is not a key
\* of the catalog is refused, the others are pushed with their quantity.
RECURSIVE read_items(_, _, _)
read_items(tries, ps, items) ==
    IF tries = <<>> THEN items
    ELSE IF Head(tries)[1] \notin DOMAIN ps THEN read_items(Tail(tries), ps, items)
    ELSE read_items(Tail(tries), ps,
                    Append(items, <<Head(tries)[1], get_float_input(Head(tries)[2])>>))

\* normalize_servings with the test >= 0.0 instead of > 0.0.
normalize_servings_ge(servings) == IF servings >= 0 THEN servings ELSE 1

\* let servings = if servings > 0.0 { servings } else { 1.0 };
normalize_servings(servings) == IF servings > 0 THEN servings ELSE 1

\* The Meal value add_meal builds from the input.
new_meal(in, ps) ==
    [name     |-> in.name,
     items    |-> read_items(in.tries, ps, <<>>),
     servings |-> normalize_servings(get_float_input(in.servings))]

add_meal(in) ==
    /\ pc = "user"
    /\ Len(meals) < MaxMeals
    /\ meals' = Append(meals, new_meal(in, products))
    /\ meals_txt' = save_meals(meals')
    /\ shown' = NotShown
    /\ UNCHANGED <<users, products, daily_logs, users_txt, products_txt, daily_logs_txt,
                   pc, username, today>>

AddMeal == \E in \in MealInputs : add_meal(in)

create_custom_meal(in, ps) ==
    [name     |-> in.name,
     items    |-> read_items(in.tries, ps, <<>>),
     servings |-> normalize_servings(get_float_input(in.servings))]

(***************************************************************************)
(* User menu: the daily log.                                               *)
(***************************************************************************)
NoMealInput == [name |-> <<>>, tries |-> <<>>, servings |-> <<>>]

NoMeal == [name |-> <<>>, items |-> <<>>, servings |-> 0]

\* The number of meals in the log store.
RECURSIVE LoggedCount(_, _)
LoggedCount(logs, keys) ==
    IF keys = {} THEN 0
    ELSE LET k == CHOOSE x \in keys : TRUE IN
         Len(logs[k].meals) + LoggedCount(logs, keys \ {k})

\* The meal log_daily_intake selects: choice "0" builds a custom meal, an
\* index 1..len clones that meal of the list, anything else returns early.
selected_meal(choice, in) ==
    IF choice = <<"0">>
    THEN [ok |-> TRUE, meal |-> create_custom_meal(in, products)]
    ELSE IF ParseU32(choice).ok /\ ParseU32(choice).val > 0 /\ ParseU32(choice).val <= Len(meals)
    THEN [ok |-> TRUE, meal |-> meals[ParseU32(choice).val]]
    ELSE [ok |-> FALSE, meal |-> NoMeal]

log_daily_intake(choice, in) ==
    LET sel == selected_meal(choice, in)
        log_key == <<username, today>>
    IN
    /\ pc = "user"
    /\ sel.ok => LoggedCount(daily_logs, DOMAIN daily_logs) < MaxLogged
    /\ daily_logs' = IF sel.ok THEN PushMeal(daily_logs, log_key, sel.meal) ELSE daily_logs
    /\ IF sel.ok
       THEN \E o \in Orders(DOMAIN daily_logs') : daily_logs_txt' = save_daily_logs(daily_logs', o)
       ELSE daily_logs_txt' = daily_logs_txt
    /\ shown' = NotShown
    /\ UNCHANGED <<users, products, meals, users_txt, products_txt, meals_txt,
                   pc, username, today>>

LogDailyIntake ==
    \E choice \in ChoiceInputs :
        \E in \in (IF choice = <<"0">> THEN MealInputs ELSE {NoMealInput}) :
            log_daily_intake(choice, in)

\* SortsBefore with the operands of the comparison exchanged (a.0.1.cmp(&b.0.1)).
SortsBeforeAscending(a, b) == a[2] < b[2]

\* The comparator of view_daily_logs, b.0.1.cmp(&a.0.1): key a sorts before
\* key b when a's date is the later one.
SortsBefore(a, b) == a[2] > b[2]

\* Vec::sort_by: a stable sort, here by insertion.
RECURSIVE InsertSorted(_, _)
InsertSorted(s, x) ==
    IF s = <<>> THEN <<x>>
    ELSE IF SortsBefore(x, Head(s)) THEN <<x>> \o s
    ELSE <<Head(s)>> \o InsertSorted(Tail(s), x)

RECURSIVE SortBy(_, _)
SortBy(s, acc) == IF s = <<>> THEN acc ELSE SortBy(Tail(s), InsertSorted(acc, Head(s)))

\* The filter of view_daily_logs: the keys of `name`, in iteration order.
RECURSIVE FilterUser(_, _)
FilterUser(keys, name) ==
    IF keys = <<>> THEN <<>>
    ELSE IF Head(keys)[1] = name THEN <<Head(keys)>> \o FilterUser(Tail(keys), name)
    ELSE FilterUser(Tail(keys), name)

\* The keys view_daily_logs visits, in order, when the map iterates in `order`.
user_logs(order, name) == SortBy(FilterUser(order, name), <<>>)

\* What view_daily_logs prints for one entry: its key and the three totals.
ViewEntry(key) ==
    [user     |-> key[1],
     date     |-> key[2],
     calories |-> total_calories(daily_logs[key], products),
     proteins |-> total_nutrients(daily_logs[key], products)[1],
     minerals |-> total_nutrients(daily_logs[key], products)[2]]

view_daily_logs(order) ==
    LET ul == user_logs(order, username) IN
    /\ pc = "user"
    /\ shown' = [printed |-> TRUE, entries |-> [i \in 1..Len(ul) |-> ViewEntry(ul[i])]]
    /\ UNCHANGED <<memory, files, pc, username, today>>

ViewDailyLogs == \E order \in Orders(DOMAIN daily_logs) : view_daily_logs(order)

(***************************************************************************)
(* The program.                                                            *)
(***************************************************************************)
Next ==
    \/ Start
    \/ Exit
    \/ Tick
    \/ SignUp
    \/ LogIn
    \/ GoBack
    \/ AddProduct
    \/ AddMeal
    \/ LogDailyIntake
    \/ ViewDailyLogs

Spec == Init /\ [][Next]_vars

(***************************************************************************)
(* Parts of the program, each from a state the whole program reaches, with *)
(* the operations one group of properties is about.                        *)
(***************************************************************************)
\* The catalog and the user list across restarts.
NextCatalog ==
    \/ Start
    \/ Exit
    \/ SignUp
    \/ LogIn
    \/ GoBack
    \/ AddProduct

SpecCatalog == Init /\ [][NextCatalog]_vars

\* Users u and v have signed up and the program has exited.
InitSigned ==
    /\ users = Insert(Insert(EmptyMap, UserU, new_user(SignUpU)), UserV, new_user(SignUpV))
    /\ users_txt = save_users(users, <<UserU, UserV>>)
    /\ products = EmptyMap /\ meals = <<>> /\ daily_logs = EmptyMap
    /\ products_txt = <<>> /\ meals_txt = <<>> /\ daily_logs_txt = <<>>
    /\ pc = "off" /\ username = <<>> /\ today = 1
    /\ shown = NotShown

LogInU == log_in(UserU)

LogInV == log_in(UserV)

\* The meal list across restarts.
NextMeals ==
    \/ Start
    \/ Exit
    \/ LogInU
    \/ GoBack
    \/ AddProduct
    \/ AddMeal

SpecMeals == InitSigned /\ [][NextMeals]_vars

\* The log store across restarts, for one user.
LogCustomMeal == \E in \in MealInputs : log_daily_intake(<<"0">>, in)

NextStore ==
    \/ Start
    \/ Exit
    \/ LogInU
    \/ GoBack
    \/ AddProduct
    \/ LogCustomMeal

SpecStore == InitSigned /\ [][NextStore]_vars

\* Users u and v have signed up, product e is in the catalog, and the main
\* menu is shown.
InitReady ==
    /\ users = Insert(Insert(EmptyMap, UserU, new_user(SignUpU)), UserV, new_user(SignUpV))
    /\ users_txt = save_users(users, <<UserU, UserV>>)
    /\ products = Insert(EmptyMap, ProdE, new_product(ProductE))
    /\ products_txt = save_products(products, <<ProdE>>)
    /\ meals = <<>> /\ daily_logs = EmptyMap
    /\ meals_txt = <<>> /\ daily_logs_txt = <<>>
    /\ pc = "main" /\ username = <<>> /\ today = 1
    /\ shown = NotShown

\* Composing meals and logging them, for two users on one day.
NextCompose ==
    \/ LogInU
    \/ LogInV
    \/ GoBack
    \/ AddMeal
    \/ LogDailyIntake

SpecCompose == InitReady /\ [][NextCompose]_vars

\* One run of the program after its files are loaded: the catalog grows
\* while meals are composed and logged, until the program exits.
NextRun ==
    \/ LogInU
    \/ GoBack
    \/ AddProduct
    \/ AddMeal
    \/ LogDailyIntake
    \/ Exit

SpecRun == InitReady /\ [][NextRun]_vars

LogTwoOrNone == \E in \in {MealTwo, MealNone} : log_daily_intake(<<"0">>, in)

\* Logging and viewing for two users over several days.
NextLogs ==
    \/ LogInU
    \/ LogInV
    \/ GoBack
    \/ Tick
    \/ LogTwoOrNone
    \/ ViewDailyLogs

SpecLogs == InitReady /\ [][NextLogs]_vars

\* The aggregation on any log: the items name product e, which the catalog
\* may hold, and product z, which it never holds.
ItemChoices == {<<ProdE, 2>>, <<ProdZ, 3>>}

ServingsChoices == {1, 3}

SeqsUpTo(S, n) == UNION {[1..k -> S] : k \in 0..n}

MealChoices ==
    {[name |-> <<"m">>, items |-> its, servings |-> sv] :
        its \in SeqsUpTo(ItemChoices, MaxItems), sv \in ServingsChoices}

\* User u is in the user menu and has one entry, today's, holding any meals.
InitAggregate ==
    /\ users = Insert(Insert(EmptyMap, UserU, new_user(SignUpU)), UserV, new_user(SignUpV))
    /\ users_txt = save_users(users, <<UserU, UserV>>)
    /\ products = EmptyMap /\ products_txt = <<>>
    /\ meals = <<>> /\ meals_txt = <<>>
    /\ \E ms \in SeqsUpTo(MealChoices, MaxLogMeals) :
          daily_logs = Insert(EmptyMap, <<UserU, 1>>, [date |-> 1, meals |-> ms])
    /\ daily_logs_txt = save_daily_logs(daily_logs, <<<<UserU, 1>>>>)
    /\ pc = "user" /\ username = UserU /\ today = 1
    /\ shown = NotShown

AddProductE == \E in \in {ProductE, ProductE2} : add_product(in)

NextAggregate ==
    \/ AddProductE
    \/ ViewDailyLogs

SpecAggregate == InitAggregate /\ [][NextAggregate]_vars

\* The decoders on files the program did not write.  One of the four files
\* holds up to MaxLines lines (meals.txt: twice as many), each with the right
\* or a wrong number of fields and with numbers that do or do not parse.
UserFileLines ==
    {JoinComma(<<n, a, <<"M">>, h, w>>) :
        n \in {<<"a">>, <<"b">>}, a \in {<<"7">>, <<"x">>},
        h \in {<<"5">>, <<"x">>}, w \in {<<"-", "2">>, <<"y">>}}
    \cup {JoinComma(<<<<"a">>, <<"7">>, <<"M">>, <<"5">>>>),
          JoinComma(<<<<"a">>, <<"7">>, <<"M">>, <<"5">>, <<"6">>, <<"8">>>>),
          <<>>}

ProductFileLines ==
    {JoinComma(<<n, <<"g">>, c, pr, mi>>) :
        n \in {<<"e">>, <<"f">>}, c \in {<<"2">>, <<"x">>},
        pr \in {<<"1">>, <<"x">>}, mi \in {<<"-", "3">>, <<"y">>}}
    \cup {JoinComma(<<<<"e">>, <<"g">>, <<"2">>, <<"1">>>>),
          JoinComma(<<<<"e">>, <<"g">>, <<"2">>, <<"1">>, <<"3">>, <<"4">>>>),
          <<>>}

MealFileLines ==
    {<<"m">>, <<>>,
     JoinComma(<<<<"e">>, <<"2">>>>), JoinComma(<<<<"e">>, <<"x">>>>),
     JoinComma(<<<<"f">>, <<"-", "1">>>>), JoinComma(<<<<"e">>, <<"2">>, <<"3">>>>)}

LogFileLines ==
    {JoinComma(<<u, FmtDate(d), sv, <<"e">>, q>>) :
        u \in {UserU, UserV}, d \in {1, 2}, sv \in {<<"2">>, <<"x">>}, q \in {<<"3">>, <<"x">>}}
    \cup {JoinComma(<<UserU, <<"x">>, <<"2">>, <<"e">>, <<"3">>>>),
          JoinComma(<<UserU, FmtDate(1)>>),
          JoinComma(<<UserU, FmtDate(1), <<"2">>>>),
          JoinComma(<<UserU, FmtDate(1), <<"2">>, <<"e">>>>),
          JoinComma(<<UserU, FmtDate(1), <<"2">>, <<"e">>, <<"3">>, <<"4">>>>),
          <<>>}

InitDecode ==
    /\ users = EmptyMap /\ products = EmptyMap /\ meals = <<>> /\ daily_logs = EmptyMap
    /\ \E kind \in {"users", "products", "meals", "daily_logs"} :
          /\ users_txt \in (IF kind = "users" THEN SeqsUpTo(UserFileLines, MaxLines) ELSE {<<>>})
          /\ products_txt \in (IF kind = "products" THEN SeqsUpTo(ProductFileLines, MaxLines) ELSE {<<>>})
          /\ meals_txt \in (IF kind = "meals" THEN SeqsUpTo(MealFileLines, 2 * MaxLines) ELSE {<<>>})
          /\ daily_logs_txt \in (IF kind = "daily_logs" THEN SeqsUpTo(LogFileLines, MaxLines) ELSE {<<>>})
    /\ pc = "off" /\ username = <<>> /\ today = 1
    /\ shown = NotShown

NextDecode == Start

SpecDecode == InitDecode /\ [][NextDecode]_vars

(***************************************************************************)
(* Properties.                                                             *)
(***************************************************************************)

\* C4: encoding then decoding the Product collection or the User collection
\* gives back the same collection: the same keys and, for each key, the same
\* field values.  The files are rewritten by every operation that changes a
\* collection, so whenever the program runs or has exited, decoding the
\* file must give the collection in memory.
C4_RoundTrip ==
    pc # "panicked" =>
        /\ load_users(users_txt) = users
        /\ load_products(products_txt) = products

\* C10: save_meals then load_meals gives a list of the same length and
\* order, each meal with its name and ordered items and with servings 1.
C10_MealsRoundTrip ==
    pc # "panicked" =>
        load_meals(meals_txt) = [i \in 1..Len(meals) |-> [meals[i] EXCEPT !.servings = 1]]

\* The synthetic meals a reload is expected to make of a log: one per item.
Flattened(log) ==
    LET fi == FlatItems(log) IN
    [i \in 1..Len(fi) |->
        [name |-> LoadedMeal, items |-> <<fi[i].item>>, servings |-> fi[i].servings]]

\* The entry of key k after a reload; a key without a line has no meals.
Reloaded(logs, k) == IF k \in DOMAIN logs THEN logs[k] ELSE [date |-> k[2], meals |-> <<>>]

\* C3: saving the daily log store and reloading it gives, for every key,
\* one single-item meal named "Loaded Meal" per saved item, with the servings
\* of the meal it came from, in the original order; and the totals of every
\* key against the same catalog are the same before and after.
C3_ReloadFlattens ==
    pc # "panicked" =>
        LET r == load_daily_logs(daily_logs_txt) IN
        /\ ~r.panic
        /\ DOMAIN r.logs \subseteq DOMAIN daily_logs
        /\ \A k \in DOMAIN daily_logs :
              /\ Reloaded(r.logs, k).meals = Flattened(daily_logs[k])
              /\ total_calories(Reloaded(r.logs, k), products) = total_calories(daily_logs[k], products)
              /\ total_nutrients(Reloaded(r.logs, k), products) = total_nutrients(daily_logs[k], products)

\* C8: no DailyLog entry is ever deleted: a key of the log store is a key of
\* the log store in every later state, restarts included.
C8_NeverDeleted == [][DOMAIN daily_logs \subseteq DOMAIN daily_logs']_vars

\* The meals log_daily_intake can be given in the current state: a meal of
\* the list, or a custom meal built from the console input.
LoggableMeals ==
    {meals[i] : i \in 1..Len(meals)} \cup
    {[name     |-> in.name,
      items    |-> read_items(in.tries, products, <<>>),
      servings |-> IF ParseF32(in.servings).ok /\ ParseF32(in.servings).val > 0
                   THEN ParseF32(in.servings).val ELSE 1] : in \in MealInputs}

\* C2: logging a meal for (username, today) creates the entry with exactly
\* that meal when the key is new, appends the meal at the end of the entry's
\* meals when the key exists, leaves every other entry as it was, and
\* rewrites daily_logs.txt from the new store.
C2_LogMeal ==
    [][daily_logs' # daily_logs =>
         LET key == <<username, today>> IN
         /\ DOMAIN daily_logs' = DOMAIN daily_logs \cup {key}
         /\ \A k \in DOMAIN daily_logs \ {key} : daily_logs'[k] = daily_logs[k]
         /\ \E meal \in LoggableMeals :
               daily_logs'[key].meals =
                   IF key \in DOMAIN daily_logs
                   THEN Append(daily_logs[key].meals, meal)
                   ELSE <<meal>>
         /\ \E o \in Orders(DOMAIN daily_logs') :
               daily_logs_txt' = save_daily_logs(daily_logs', o)
      ]_vars

\* C2 witness: an entry that was created and then appended to, next to an
\* entry of another user, with the file holding the lines of both.
C2_Witness ==
    /\ <<UserU, 1>> \in DOMAIN daily_logs /\ <<UserV, 1>> \in DOMAIN daily_logs
    /\ Len(daily_logs[<<UserU, 1>>].meals) = 2
    /\ daily_logs[<<UserU, 1>>].meals[1] # daily_logs[<<UserU, 1>>].meals[2]
    /\ Len(daily_logs[<<UserV, 1>>].meals) = 1
    /\ Len(daily_logs_txt) >= 2

\* The servings a meal must get from the servings line of the input.
ExpectedServings(line) ==
    IF ParseF32(line).ok /\ ParseF32(line).val > 0 THEN ParseF32(line).val ELSE 1

\* C6: every meal add_meal or create_custom_meal produces has servings > 0:
\* a servings answer that is <= 0 or does not parse gives 1, an answer > 0
\* is kept.  (The inputs have distinct meal names, so the name tells which
\* input a meal was built from.)
C6_Servings ==
    [][/\ meals' # meals =>
            LET m == meals'[Len(meals')] IN
            /\ m.servings > 0
            /\ \E in \in MealInputs : m.name = in.name /\ m.servings = ExpectedServings(in.servings)
       /\ daily_logs' # daily_logs =>
            LET ms == daily_logs'[<<username, today>>].meals
                m == ms[Len(ms)]
            IN
            /\ m.servings > 0
            /\ \/ \E i \in 1..Len(meals) : m = meals[i]
               \/ \E in \in MealInputs : m.name = in.name /\ m.servings = ExpectedServings(in.servings)
      ]_vars

\* C6 witness: the list holds a meal whose unparseable servings became 1 and
\* a meal whose servings 2 were kept; the log holds a custom meal whose
\* servings -1 became 1.
C6_Witness ==
    /\ \E i \in 1..Len(meals) : meals[i].name = MealBad.name /\ meals[i].servings = 1
    /\ \E i \in 1..Len(meals) : meals[i].name = MealTwo.name /\ meals[i].servings = 2
    /\ \E k \in DOMAIN daily_logs : \E i \in 1..Len(daily_logs[k].meals) :
          daily_logs[k].meals[i].name = MealNone.name /\ daily_logs[k].meals[i].servings = 1
          /\ \A j \in 1..Len(meals) : meals[j].name # MealNone.name

\* C7: view_daily_logs visits exactly the entries whose key has the given
\* user name, each once, in strictly descending date order; entries of other
\* users are not visited.
C7_Query ==
    shown.printed =>
        LET e == shown.entries IN
        /\ \A i \in 1..Len(e) :
              e[i].user = username /\ <<username, e[i].date>> \in DOMAIN daily_logs
        /\ \A k \in DOMAIN daily_logs :
              k[1] = username => Cardinality({i \in 1..Len(e) : e[i].date = k[2]}) = 1
        /\ \A i, j \in 1..Len(e) : i < j => e[i].date > e[j].date

\* C7 witness: a view of u's two entries, the later date first, while v has
\* an entry too.
C7_Witness ==
    /\ shown.printed /\ username = UserU
    /\ Len(shown.entries) = 2
    /\ shown.entries[1].date = 2 /\ shown.entries[2].date = 1
    /\ \E k \in DOMAIN daily_logs : k[1] = UserV

\* The contribution of one item to the total of the nutrient f: the value
\* the catalog holds for the product times quantity times servings, and 0
\* for a product the catalog does not hold.
Contribution(ps, item, servings, f) ==
    IF item[1] \in DOMAIN ps THEN ps[item[1]][f] * item[2] * servings ELSE 0

RECURSIVE ItemsTotal(_, _, _, _)
ItemsTotal(items, servings, ps, f) ==
    IF items = <<>> THEN 0
    ELSE Contribution(ps, Head(items), servings, f) + ItemsTotal(Tail(items), servings, ps, f)

\* The total of one meal, computed on its own.
MealTotal(meal, ps, f) == ItemsTotal(meal.items, meal.servings, ps, f)

RECURSIVE MealsTotal(_, _, _)
MealsTotal(ms, ps, f) ==
    IF ms = <<>> THEN 0 ELSE MealTotal(Head(ms), ps, f) + MealsTotal(Tail(ms), ps, f)

\* C1: the totals view_daily_logs gets from total_calories / total_nutrients
\* are the sums of c*q*s, p*q*s and m*q*s over every item of every meal of
\* the entry, with the values the catalog holds at the call, an item of an
\* absent product counting 0; they equal the sum of the per-meal totals.
C1_Totals ==
    shown.printed =>
        \A i \in 1..Len(shown.entries) :
            LET e == shown.entries[i]
                log == daily_logs[<<e.user, e.date>>]
            IN
            /\ e.calories = MealsTotal(log.meals, products, "calories")
            /\ e.proteins = MealsTotal(log.meals, products, "proteins")
            /\ e.minerals = MealsTotal(log.meals, products, "minerals")

\* C1 witness: the totals of an entry of two two-item meals, one item of
\* each naming an absent product, shown after product e was overwritten.
C1_Witness ==
    /\ shown.printed /\ Len(shown.entries) = 1
    /\ ProdE \in DOMAIN products /\ products[ProdE] = new_product(ProductE2)
    /\ LET ms == daily_logs[<<UserU, 1>>].meals IN
       /\ Len(ms) = 2
       /\ ms[1].items = << <<ProdE, 2>>, <<ProdZ, 3>> >> /\ ms[1].servings = 3
       /\ ms[2].items = << <<ProdZ, 3>>, <<ProdE, 2>> >> /\ ms[2].servings = 1
    /\ shown.entries[1].calories = 0
    /\ shown.entries[1].proteins = 40
    /\ shown.entries[1].minerals = 0 - 8

\* The lines of a file that have n fields.
RECURSIVE WithFields(_, _)
WithFields(lines, n) ==
    IF lines = <<>> THEN <<>>
    ELSE IF Len(Split(Head(lines))) = n THEN <<Head(lines)>> \o WithFields(Tail(lines), n)
    ELSE WithFields(Tail(lines), n)

\* meals.txt without the item lines (the non-empty lines between a name line
\* and the next empty line) that do not have 2 fields.
RECURSIVE WithItemFields(_, _)
WithItemFields(lines, inItems) ==
    IF lines = <<>> THEN <<>>
    ELSE IF ~inItems THEN <<Head(lines)>> \o WithItemFields(Tail(lines), TRUE)
    ELSE IF Head(lines) = <<>> THEN <<Head(lines)>> \o WithItemFields(Tail(lines), FALSE)
    ELSE IF Len(Split(Head(lines))) = 2 THEN <<Head(lines)>> \o WithItemFields(Tail(lines), TRUE)
    ELSE WithItemFields(Tail(lines), TRUE)

\* C5: in every decoder a line whose number of fields differs from the
\* record format's (5, 5, 2 for item lines, 5) is skipped without error: each
\* load gives what it gives for the file without those lines, and it panics
\* only if it panics on the file without them.
C5_WrongCountSkipped ==
    pc \in {"main", "panicked"} =>
        /\ users = load_users(WithFields(users_txt, 5))
        /\ products = load_products(WithFields(products_txt, 5))
        /\ meals = load_meals(WithItemFields(meals_txt, FALSE))
        /\ (pc = "panicked") = load_daily_logs(WithFields(daily_logs_txt, 5)).panic
        /\ pc = "main" => daily_logs = load_daily_logs(WithFields(daily_logs_txt, 5)).logs

\* A numeric field as the decoders are said to read it: left alone when it
\* parses, replaced by the text of its default when it does not.
Repaired(field, parses, default) == IF parses THEN field ELSE default

RepairedUserLine(line) ==
    LET p == Split(line) IN
    IF Len(p) = 5
    THEN JoinComma(<<p[1], Repaired(p[2], ParseU32(p[2]).ok, <<"0">>), p[3],
                     Repaired(p[4], ParseF32(p[4]).ok, <<"0">>),
                     Repaired(p[5], ParseF32(p[5]).ok, <<"0">>)>>)
    ELSE line

RepairedProductLine(line) ==
    LET p == Split(line) IN
    IF Len(p) = 5
    THEN JoinComma(<<p[1], p[2], Repaired(p[3], ParseF32(p[3]).ok, <<"0">>),
                     Repaired(p[4], ParseF32(p[4]).ok, <<"0">>),
                     Repaired(p[5], ParseF32(p[5]).ok, <<"0">>)>>)
    ELSE line

RepairedLogLine(line) ==
    LET p == Split(line) IN
    IF Len(p) >= 5
    THEN JoinComma([p EXCEPT ![3] = Repaired(p[3], ParseF32(p[3]).ok, <<"1">>),
                             ![5] = Repaired(p[5], ParseF32(p[5]).ok, <<"0">>)])
    ELSE line

RECURSIVE RepairedMealLines(_, _)
RepairedMealLines(lines, inItems) ==
    IF lines = <<>> THEN <<>>
    ELSE IF ~inItems THEN <<Head(lines)>> \o RepairedMealLines(Tail(lines), TRUE)
    ELSE IF Head(lines) = <<>> THEN <<Head(lines)>> \o RepairedMealLines(Tail(lines), FALSE)
    ELSE LET p == Split(Head(lines)) IN
         <<IF Len(p) = 2
           THEN JoinComma(<<p[1], Repaired(p[2], ParseF32(p[2]).ok, <<"0">>)>>)
           ELSE Head(lines)>> \o RepairedMealLines(Tail(lines), TRUE)

\* C9: a numeric field that does not parse never makes a load fail: it reads
\* as 0 (age, height, weight, calories, proteins, minerals, quantity) or as 1
\* (servings of a daily log line), the record is created and the following
\* lines are loaded.  So each load gives what it gives for the file with
\* those fields replaced by "0" or "1", and panics only if it panics there.
C9_NumericDefaults ==
    pc \in {"main", "panicked"} =>
        LET r == load_daily_logs([i \in 1..Len(daily_logs_txt) |-> RepairedLogLine(daily_logs_txt[i])]) IN
        /\ users = load_users([i \in 1..Len(users_txt) |-> RepairedUserLine(users_txt[i])])
        /\ products = load_products([i \in 1..Len(products_txt) |-> RepairedProductLine(products_txt[i])])
        /\ meals = load_meals(RepairedMealLines(meals_txt, FALSE))
        /\ (pc = "panicked") = r.panic
        /\ daily_logs = r.logs

\* C9 witness: a daily_logs.txt whose first line has servings and quantity
\* that do not parse, loaded as a meal with servings 1 and quantity 0, and
\* whose second line is loaded too.
C9_Witness ==
    /\ pc = "main"
    /\ Len(daily_logs_txt) = 2
    /\ daily_logs_txt[1] = JoinComma(<<UserU, FmtDate(1), <<"x">>, <<"e">>, <<"x">>>>)
    /\ daily_logs_txt[2] = JoinComma(<<UserU, FmtDate(1), <<"2">>, <<"e">>, <<"3">>>>)
    /\ daily_logs[<<UserU, 1>>].meals =
           <<[name |-> LoadedMeal, items |-> << <<ProdE, 0>> >>, servings |-> 1],
             [name |-> LoadedMeal, items |-> << <<ProdE, 3>> >>, servings |-> 2]>>

\* Every item of the meal names a key of the catalog.
ItemsResolve(meal) ==
    \A i \in 1..Len(meal.items) : meal.items[i][1] \in DOMAIN products

\* C11: within one run, every item of every meal built by add_meal (the
\* composer list) or by create_custom_meal or copied from the list (the
\* daily logs) names a product of the catalog, in the state where the meal
\* is built and in every later state of the run.
C11_ItemsResolve ==
    /\ \A i \in 1..Len(meals) : ItemsResolve(meals[i])
    /\ \A k \in DOMAIN daily_logs :
          \A j \in 1..Len(daily_logs[k].meals) : ItemsResolve(daily_logs[k].meals[j])

\* C11 witness: the list holds a meal for which the names "z" and "e,g" were
\* refused, so that only "e" became an item; later "e,g" was added to the
\* catalog and "e" was overwritten, and a custom meal with the item "e,g"
\* was logged.
C11_Witness ==
    /\ Len(meals) >= 1
    /\ meals[1] = [name |-> <<"m">>, items |-> << <<ProdE, 2>> >>, servings |-> 2]
    /\ ProdEG \in DOMAIN products
    /\ products[ProdE] = new_product(ProductE2)
    /\ \E k \in DOMAIN daily_logs : \E j \in 1..Len(daily_logs[k].meals) :
          daily_logs[k].meals[j].items = << <<ProdE, 2>>, <<ProdEG, 3>> >>

====
